---- MODULE Spec2Model ----
(***************************************************************************)
(* A model of compile_css.py (RobustCSSCompiler): the selector splitter,   *)
(* the rule store, the at-rule collector, the alphabetical sort and the    *)
(* output composer.                                                        *)
(*                                                                         *)
(* Text is modelled as sequences of one-character strings (selectors,      *)
(* media conditions), so that startswith, "in", strip, lower and the       *)
(* regular expressions of the source are computed character by character.  *)
(***************************************************************************)
EXTENDS Integers, Sequences, FiniteSets, TLC

VARIABLES
    split_pc,       \* position of the splitter run: "input", "split", "resplit"
    split_in,       \* the selector clause handed to split_selectors
    split_out,      \* its result
    resplit_in,     \* one piece of split_out, handed to split_selectors again
    resplit_out,    \* the result for that piece
    scenario,       \* which family of stylesheets is read
    alphabetical_order, \* self.alphabetical_order
    safe_mode,      \* self.safe_mode
    source,         \* the nodes of the stylesheet processed so far
    rules,          \* self.rules
    at_rules,       \* self.at_rules
    media_queries,  \* self.media_queries
    stats,          \* self.stats
    pc,             \* position in compile(): "process", "sorted", "done",
                    \* "recompiled"
    output,         \* the text generate_output returned
    output2,        \* the text of compiling output again
    file_pc,        \* position in write_file: "start", "renamed", "opened",
                    \* "written", or "failed", "interrupted"
    file_content,   \* the text handed to write_file
    dest,           \* the file at self.output_file
    backup,         \* the file at the backup path
    previous        \* the destination file as it was before the run

split_vars == <<split_pc, split_in, split_out, resplit_in, resplit_out>>

compiler_vars ==
    <<scenario, alphabetical_order, safe_mode, source, rules, at_rules,
      media_queries, stats, pc, output, output2>>

file_vars == <<file_pc, file_content, dest, backup, previous>>

vars == <<split_vars, compiler_vars, file_vars>>

-----------------------------------------------------------------------------
(* Bounds of the model *)

\* longest enumerated selector clause, in characters
MaxLen == 4

\* most nodes of a stylesheet of the "rules", "at" and "media" scenarios
MaxNodes == 3

\* longest text of a file, in characters
MaxText == 2

-----------------------------------------------------------------------------
(* Python string helpers on character sequences *)

IsSpace(c) == c \in {" ", "\n", "\t"}

RECURSIVE lstrip(_)
lstrip(s) == IF s # <<>> /\ IsSpace(Head(s)) THEN lstrip(Tail(s)) ELSE s

RECURSIVE rstrip(_)
rstrip(s) ==
    IF s # <<>> /\ IsSpace(s[Len(s)]) THEN rstrip(SubSeq(s, 1, Len(s) - 1)) ELSE s

\* str.strip()
strip(s) == rstrip(lstrip(s))

\* str.startswith(p)
startswith(s, p) == Len(s) >= Len(p) /\ SubSeq(s, 1, Len(p)) = p

\* the substring of s that starts at position i and has the length of p is p
MatchAt(s, p, i) == i + Len(p) - 1 <= Len(s) /\ SubSeq(s, i, i + Len(p) - 1) = p

\* p in s
contains(s, p) == \E i \in 1..(Len(s) + 1) : MatchAt(s, p, i)

-----------------------------------------------------------------------------
(* split_selectors: one pass over the clause with the state                *)
(* (result, current, depth, in_string, quote_char)                         *)

Openers == {"(", "[", "{"}
Closers == {")", "]", "}"}
Quotes  == {"\"", "'"}

split_init ==
    [result |-> <<>>, current |-> <<>>, depth |-> 0,
     in_string |-> FALSE, quote_char |-> ""]

\* lines 333-337 and 343-346: flush the buffer as one selector
flush(st) ==
    IF st.current # <<>>
    THEN LET sel == strip(st.current)
         IN  [st EXCEPT !.result = IF sel # <<>> THEN Append(st.result, sel)
                                                 ELSE st.result,
                        !.current = <<>>]
    ELSE st

\* a plausible slip: the buffer is flushed at a comma without .strip()
split_step_nostrip(st, selector, i) ==
    LET char == selector[i]
        isq  == char \in Quotes /\ (i = 1 \/ selector[i - 1] # "\\")
        s1   == IF isq /\ ~st.in_string
                THEN [st EXCEPT !.in_string = TRUE, !.quote_char = char]
                ELSE IF isq /\ char = st.quote_char
                THEN [st EXCEPT !.in_string = FALSE, !.quote_char = ""]
                ELSE st
    IN  IF s1.in_string
        THEN [s1 EXCEPT !.current = Append(s1.current, char)]
        ELSE IF char \in Openers
        THEN [s1 EXCEPT !.depth = s1.depth + 1, !.current = Append(s1.current, char)]
        ELSE IF char \in Closers
        THEN [s1 EXCEPT !.depth = s1.depth - 1, !.current = Append(s1.current, char)]
        ELSE IF char = "," /\ s1.depth = 0
        THEN IF s1.current # <<>>
             THEN [s1 EXCEPT !.result = Append(s1.result, s1.current),
                             !.current = <<>>]
             ELSE s1
        ELSE [s1 EXCEPT !.current = Append(s1.current, char)]

\* a plausible slip: every comma outside a string splits, whatever the depth
split_step_nodepth(st, selector, i) ==
    LET char == selector[i]
        isq  == char \in Quotes /\ (i = 1 \/ selector[i - 1] # "\\")
        s1   == IF isq /\ ~st.in_string
                THEN [st EXCEPT !.in_string = TRUE, !.quote_char = char]
                ELSE IF isq /\ char = st.quote_char
                THEN [st EXCEPT !.in_string = FALSE, !.quote_char = ""]
                ELSE st
    IN  IF s1.in_string
        THEN [s1 EXCEPT !.current = Append(s1.current, char)]
        ELSE IF char = ","
        THEN flush(s1)
        ELSE [s1 EXCEPT !.current = Append(s1.current, char)]

\* the body of the for loop, lines 312-340, for the character at position i
\* (1-based here; selector[i-1] of the source is selector[i - 1] here too)
split_step(st, selector, i) ==
    LET char == selector[i]
        \* line 314: a quote that is not preceded by a backslash
        isq  == char \in Quotes /\ (i = 1 \/ selector[i - 1] # "\\")
        \* lines 315-320
        s1   == IF isq /\ ~st.in_string
                THEN [st EXCEPT !.in_string = TRUE, !.quote_char = char]
                ELSE IF isq /\ char = st.quote_char
                THEN [st EXCEPT !.in_string = FALSE, !.quote_char = ""]
                ELSE st
    IN  \* lines 323-325
        IF s1.in_string
        THEN [s1 EXCEPT !.current = Append(s1.current, char)]
        \* lines 328-329
        ELSE IF char \in Openers
        THEN [s1 EXCEPT !.depth = s1.depth + 1, !.current = Append(s1.current, char)]
        \* lines 330-331
        ELSE IF char \in Closers
        THEN [s1 EXCEPT !.depth = s1.depth - 1, !.current = Append(s1.current, char)]
        \* lines 332-338
        ELSE IF char = "," /\ s1.depth = 0
        THEN flush(s1)
        \* line 340
        ELSE [s1 EXCEPT !.current = Append(s1.current, char)]

RECURSIVE split_scan(_, _)
\* the state after the first n characters
split_scan(selector, n) ==
    IF n = 0 THEN split_init
    ELSE split_step(split_scan(selector, n - 1), selector, n)

split_selectors(selector) == flush(split_scan(selector, Len(selector))).result

-----------------------------------------------------------------------------
(* The parser's nodes (tinycss2), as the compiler reads them               *)
(*   node: [type, keyword, prelude, decls, children, body]                 *)
(*     type      "qualified-rule", "at-rule" or "error"                    *)
(*     keyword   lower_at_keyword of an at-rule                            *)
(*     prelude   the prelude's text (characters, or the token "/**/")      *)
(*     decls     parse_declaration_list of a qualified rule's content      *)
(*     children  parse_stylesheet of an at-rule's content                  *)
(*     body      serialize([node]) of an at-rule, as text tokens           *)
(*   decl: [type, name, value, important]                                  *)
(*     type      "declaration" or "error"                                  *)
(*     name      lower_name; value: the value's text tokens                *)

EmptyComment == "/**/"
Important == " !important"

\* serialize_tokens, lines 292-297: the text without the empty comments
serialize_tokens(tokens) == SelectSeq(tokens, LAMBDA t : t # EmptyComment)

\* serialize_node, lines 299-301
serialize_node(node) == node.body

-----------------------------------------------------------------------------
(* OrderedDict as a sequence of entries, keys unique, in insertion order   *)

\* the position of the rule for selector sel in an OrderedDict of rules, 0 if none
rule_index(d, sel) ==
    IF \E i \in 1..Len(d) : d[i].selector = sel
    THEN CHOOSE i \in 1..Len(d) : d[i].selector = sel
    ELSE 0

\* the position of property prop in a rule's properties, 0 if none
prop_index(props, prop) ==
    IF \E i \in 1..Len(props) : props[i].prop = prop
    THEN CHOOSE i \in 1..Len(props) : props[i].prop = prop
    ELSE 0

\* the position of media condition cond in media_queries, 0 if none
media_index(mq, cond) ==
    IF \E i \in 1..Len(mq) : mq[i].condition = cond
    THEN CHOOSE i \in 1..Len(mq) : mq[i].condition = cond
    ELSE 0

\* properties[prop] = value on an OrderedDict: overwrite in place or append
set_property(props, prop, value) ==
    LET i == prop_index(props, prop)
    IN  IF i # 0 THEN [props EXCEPT ![i].value = value]
        ELSE Append(props, [prop |-> prop, value |-> value])

\* CSSRule.__init__, lines 31-34
CSSRule(selector) == [selector |-> strip(selector), properties |-> <<>>]

\* CSSRule.add_property, lines 36-38 (property names carry no whitespace)
add_property(rule, prop, value) ==
    [rule EXCEPT !.properties = set_property(rule.properties, prop, strip(value))]

RECURSIVE merge_props(_, _)
merge_props(props, other) ==
    IF other = <<>> THEN props
    ELSE merge_props(set_property(props, Head(other).prop, Head(other).value),
                     Tail(other))

\* CSSRule.merge_with, lines 40-43
merge_with(rule, other_rule) ==
    [rule EXCEPT !.properties = merge_props(rule.properties, other_rule.properties)]

-----------------------------------------------------------------------------
(* The compiler's state, as a record c:                                    *)
(*   rules          OrderedDict selector -> CSSRule                        *)
(*   at_rules       list of [keyword, name, content]                       *)
(*   media_queries  OrderedDict condition -> OrderedDict selector -> rule  *)
(*   stats          the counters                                           *)

\* __init__, lines 71-84
new_compiler ==
    [rules |-> <<>>, at_rules |-> <<>>, media_queries |-> <<>>,
     stats |-> [rules_parsed |-> 0, selectors_split |-> 0,
                properties_merged |-> 0, at_rules |-> 0,
                media_queries |-> 0, parse_errors |-> 0]]

RECURSIVE decl_fold(_, _)
\* lines 277-288: the loop over the declarations; acc = [properties, errors]
decl_fold(acc, decls) ==
    IF decls = <<>> THEN acc
    ELSE LET decl == Head(decls)
             value == strip(serialize_tokens(decl.value))
             acc1 ==
                 IF decl.type = "declaration"
                 THEN [acc EXCEPT !.properties =
                          set_property(acc.properties, decl.name,
                              IF decl.important THEN Append(value, Important)
                                                ELSE value)]
                 ELSE IF decl.type = "error"
                 THEN [acc EXCEPT !.errors = acc.errors + 1]
                 ELSE acc
         IN  decl_fold(acc1, Tail(decls))

\* parse_declaration_block, lines 271-290: the properties, and how many
\* parse errors were counted
parse_declaration_block(decls) ==
    decl_fold([properties |-> <<>>, errors |-> 0], decls)

RECURSIVE add_properties(_, _)
\* lines 217-218 for one selector
add_properties(rule, properties) ==
    IF properties = <<>> THEN rule
    ELSE add_properties(add_property(rule, Head(properties).prop,
                                     Head(properties).value),
                        Tail(properties))

RECURSIVE store_selectors(_, _, _)
\* lines 205-219: the loop over the split selectors, on the target dict
store_selectors(target, selectors, properties) ==
    IF selectors = <<>> THEN target
    ELSE LET sel == strip(Head(selectors))
             i   == rule_index(target, sel)
             t1  == IF sel = <<>> THEN target
                    ELSE IF i = 0
                    THEN Append(target, add_properties(CSSRule(sel), properties))
                    ELSE [target EXCEPT ![i] = add_properties(target[i], properties)]
         IN  store_selectors(t1, Tail(selectors), properties)

\* the selectors of the list that are not empty once stripped (line 207)
non_empty(selectors) == SelectSeq(selectors, LAMBDA x : strip(x) # <<>>)

\* process_qualified_rule, lines 182-219.  media_condition is <<>> for None
\* and for the empty string, which the test of line 203 does not tell apart.
process_qualified_rule(c, rule, media_condition) ==
    LET c1 == [c EXCEPT !.stats.rules_parsed = @ + 1]
        selector == strip(serialize_tokens(rule.prelude))
        parsed == parse_declaration_block(rule.decls)
        c2 == [c1 EXCEPT !.stats.parse_errors = @ + parsed.errors]
        properties == parsed.properties
        selectors == split_selectors(selector)
        n == Len(non_empty(selectors))
        c3 == [c2 EXCEPT !.stats.selectors_split = @ + n,
                         !.stats.properties_merged = @ + n * Len(properties)]
        m == media_index(c.media_queries, media_condition)
    IN  IF selector = <<>> THEN c1
        ELSE IF properties = <<>> THEN c2
        ELSE IF media_condition = <<>>
        THEN [c3 EXCEPT !.rules = store_selectors(c.rules, selectors, properties)]
        \* line 203: setdefault creates the scope before any selector is stored
        ELSE IF m = 0
        THEN [c3 EXCEPT !.media_queries =
                 Append(@, [condition |-> media_condition,
                            rules |-> store_selectors(<<>>, selectors, properties)])]
        ELSE [c3 EXCEPT !.media_queries[m].rules =
                 store_selectors(@, selectors, properties)]

RECURSIVE media_content(_, _, _)
\* lines 238-240: only the qualified rules of an @media body are processed
media_content(c, children, media_condition) ==
    IF children = <<>> THEN c
    ELSE media_content(
             IF Head(children).type = "qualified-rule"
             THEN process_qualified_rule(c, Head(children), media_condition)
             ELSE c,
             Tail(children), media_condition)

\* the position of the stored @keyframes named name, 0 if none (lines 248-252)
keyframe_index(ars, name) ==
    IF \E i \in 1..Len(ars) :
          ars[i].keyword = "keyframes" /\ ars[i].name = name
    THEN CHOOSE i \in 1..Len(ars) :
          /\ ars[i].keyword = "keyframes" /\ ars[i].name = name
          /\ \A j \in 1..(i - 1) :
                ~(ars[j].keyword = "keyframes" /\ ars[j].name = name)
    ELSE 0

\* a plausible slip: a @keyframes whose name is already stored is dropped, the
\* stored content is kept
process_at_rule_keep_first(c, at_rule) ==
    LET keyword == at_rule.keyword
        name == strip(serialize_tokens(at_rule.prelude))
        content == serialize_node(at_rule)
        k == keyframe_index(c.at_rules, name)
    IN  IF keyword = "media"
        THEN media_content([c EXCEPT !.stats.media_queries = @ + 1],
                           at_rule.children, name)
        ELSE IF keyword = "keyframes" /\ k # 0
        THEN [c EXCEPT !.stats.at_rules = @ + 1]
        ELSE [c EXCEPT !.stats.at_rules = @ + 1,
                       !.at_rules = Append(@, [keyword |-> keyword,
                                               name |-> IF keyword = "keyframes"
                                                        THEN name ELSE <<>>,
                                               content |-> content])]

\* process_at_rule, lines 221-269
process_at_rule(c, at_rule) ==
    LET keyword == at_rule.keyword
        name == strip(serialize_tokens(at_rule.prelude))
        content == serialize_node(at_rule)
        k == keyframe_index(c.at_rules, name)
    IN  IF keyword = "media"
        THEN media_content([c EXCEPT !.stats.media_queries = @ + 1],
                           at_rule.children, name)
        ELSE IF keyword = "keyframes"
        THEN IF k # 0
             THEN [c EXCEPT !.stats.at_rules = @ + 1,
                            !.at_rules[k].content = content]
             ELSE [c EXCEPT !.stats.at_rules = @ + 1,
                            !.at_rules = Append(@, [keyword |-> keyword,
                                                    name |-> name,
                                                    content |-> content])]
        ELSE [c EXCEPT !.stats.at_rules = @ + 1,
                       !.at_rules = Append(@, [keyword |-> keyword,
                                               name |-> <<>>,
                                               content |-> content])]

\* process_node, lines 168-180 (always called with media_condition=None)
process_node(c, node) ==
    IF node.type = "qualified-rule" THEN process_qualified_rule(c, node, <<>>)
    ELSE IF node.type = "at-rule" THEN process_at_rule(c, node)
    ELSE IF node.type = "error" THEN [c EXCEPT !.stats.parse_errors = @ + 1]
    ELSE c

RECURSIVE process_stylesheet(_, _)
\* process_stylesheet, lines 163-166
process_stylesheet(c, stylesheet) ==
    IF stylesheet = <<>> THEN c
    ELSE process_stylesheet(process_node(c, Head(stylesheet)), Tail(stylesheet))

-----------------------------------------------------------------------------
(* sort_rules: Python's str.lower, string comparison and stable sorted     *)

\* the characters of the model in code point order
CodePoints ==
    <<"\t", "\n", " ", "\"", "#", "'", "(", ")", "*", ",", "-", ".",
      "0", "1", "2", "3", "4", "5", "6", "7", "8", "9", ":", "=", ">",
      "A", "B", "H", "[", "\\", "]",
      "a", "b", "c", "d", "e", "f", "g", "h", "i", "k", "l", "m", "n", "o",
      "p", "r", "s", "t", "u", "v", "w", "x", "y", "{", "}">>

\* ord(c), up to an increasing map
ord(c) == CHOOSE i \in 1..Len(CodePoints) : CodePoints[i] = c

lower_char(c) ==
    CASE c = "A" -> "a" [] c = "B" -> "b" [] c = "H" -> "h" [] OTHER -> c

\* str.lower()
lower(s) == [i \in 1..Len(s) |-> lower_char(s[i])]

RECURSIVE str_less(_, _)
\* a < b on strings
str_less(a, b) ==
    IF b = <<>> THEN FALSE
    ELSE IF a = <<>> THEN TRUE
    ELSE IF Head(a) # Head(b) THEN ord(Head(a)) < ord(Head(b))
    ELSE str_less(Tail(a), Tail(b))

RECURSIVE insert_sorted(_, _)
\* the rule placed after every rule whose key is not greater (stable)
insert_sorted(sorted, rule) ==
    IF sorted = <<>> THEN <<rule>>
    ELSE IF str_less(lower(rule.selector), lower(Head(sorted).selector))
    THEN <<rule>> \o sorted
    ELSE <<Head(sorted)>> \o insert_sorted(Tail(sorted), rule)

RECURSIVE sorted_by_selector(_)
\* sorted(rules.items(), key=lambda x: x[0].lower()), lines 375, 390, 396, 400
sorted_by_selector(rs) ==
    IF rs = <<>> THEN <<>>
    ELSE insert_sorted(sorted_by_selector(SubSeq(rs, 1, Len(rs) - 1)),
                       rs[Len(rs)])

Str_link == <<":", "l", "i", "n", "k">>
Str_visited == <<":", "v", "i", "s", "i", "t", "e", "d">>
Str_hover == <<":", "h", "o", "v", "e", "r">>
Str_focus == <<":", "f", "o", "c", "u", "s">>
Str_active == <<":", "a", "c", "t", "i", "v", "e">>
Str_first_child == <<":", "f", "i", "r", "s", "t", "-", "c", "h", "i", "l", "d">>
Str_last_child == <<":", "l", "a", "s", "t", "-", "c", "h", "i", "l", "d">>
Str_nth == <<":", "n", "t", "h", "-">>

\* lines 354-357
dangerous_patterns ==
    {Str_link, Str_visited, Str_hover, Str_focus, Str_active,
     Str_first_child, Str_last_child, Str_nth}

\* lines 359-360
is_dangerous(selector) == \E pattern \in dangerous_patterns : contains(selector, pattern)

\* a plausible slip: the dangerous rules are sorted like the others
sort_safe_all(rs) == sorted_by_selector(rs)

\* lines 363-376 and 381-393: the dangerous rs first, in their order, then
\* the others, sorted
sort_safe(rs) ==
    SelectSeq(rs, LAMBDA r : is_dangerous(r.selector))
    \o sorted_by_selector(SelectSeq(rs, LAMBDA r : ~is_dangerous(r.selector)))

\* sort_rules, lines 350-401
sort_rules(c, safe) ==
    IF safe
    THEN [c EXCEPT !.rules = sort_safe(c.rules),
                   !.media_queries =
                       [i \in 1..Len(c.media_queries) |->
                           [c.media_queries[i] EXCEPT !.rules = sort_safe(@)]]]
    ELSE [c EXCEPT !.rules = sorted_by_selector(c.rules),
                   !.media_queries =
                       [i \in 1..Len(c.media_queries) |->
                           [c.media_queries[i] EXCEPT !.rules = sorted_by_selector(@)]]]

-----------------------------------------------------------------------------
(* The output text, as a sequence of pieces: a newline character, or a     *)
(* run of text without newline:                                            *)
(*   [k |-> "nl"]                      "\n"                                *)
(*   [k |-> "comment", p |-> text]     "/* text */"                        *)
(*   [k |-> "at", p, s, v]             an at-rule: keyword p, prelude s,   *)
(*                                     serialized text v                   *)
(*   [k |-> "sel", s, ind]             "<selector s> {" after ind spaces   *)
(*   [k |-> "decl", p, v, ind]         "<p>: <v>;" after ind spaces        *)
(*   [k |-> "close", ind]              "}" after ind spaces                *)
(*   [k |-> "media", s]                "@media <condition s> {"            *)

Piece(k, s, p, v, ind) == [k |-> k, s |-> s, p |-> p, v |-> v, ind |-> ind]

NL == Piece("nl", <<>>, "", <<>>, 0)
Comment(text) == Piece("comment", <<>>, text, <<>>, 0)

\* the default indent of to_css, four spaces (line 45)
Indent == 4
\* the indent passed to to_css for a rule of a media block, eight spaces
MediaIndent == 8
\* the four spaces put before each line of a rule of a media block
MediaPrefix == 4

\* str.replace('/**/', '') on text tokens
remove_empty_comments(tokens) == SelectSeq(tokens, LAMBDA t : t # EmptyComment)

\* the lines of CSSRule.to_css, lines 45-55 (no line for a rule without
\* properties)
to_css_lines(rule, indent) ==
    IF rule.properties = <<>> THEN <<>>
    ELSE <<Piece("sel", rule.selector, "", <<>>, 0)>>
         \o [i \in 1..Len(rule.properties) |->
                Piece("decl", <<>>, rule.properties[i].prop,
                      rule.properties[i].value, indent)]
         \o <<Piece("close", <<>>, "", <<>>, 0)>>

RECURSIVE join_lines(_)
\* "\n".join(lines)
join_lines(lines) ==
    IF lines = <<>> THEN <<>>
    ELSE IF Len(lines) = 1 THEN lines
    ELSE <<Head(lines), NL>> \o join_lines(Tail(lines))

\* CSSRule.to_css
to_css(rule, indent) == join_lines(to_css_lines(rule, indent))

\* line.replace('/**/', '') on a line of a rule
clean_line(line) ==
    [line EXCEPT !.s = remove_empty_comments(@), !.v = remove_empty_comments(@)]

\* rule.to_css() + "\n\n" (lines 468, 487, 492)
rule_block(rule) == to_css(rule, Indent) \o <<NL, NL>>

RECURSIVE rule_blocks(_)
rule_blocks(rs) ==
    IF rs = <<>> THEN <<>>
    ELSE rule_block(Head(rs)) \o rule_blocks(Tail(rs))

\* lines 527-530: a main rule, its empty comments removed
main_rule_block(rule) ==
    LET css == to_css(rule, Indent)
    IN  [i \in 1..Len(css) |-> clean_line(css[i])] \o <<NL, NL>>

RECURSIVE main_rule_blocks(_)
main_rule_blocks(rs) ==
    IF rs = <<>> THEN <<>>
    ELSE main_rule_block(Head(rs)) \o main_rule_blocks(Tail(rs))

RECURSIVE skip_spaces(_)
skip_spaces(tokens) ==
    IF tokens # <<>> /\ IsSpace(Head(tokens)) THEN skip_spaces(Tail(tokens))
    ELSE tokens

RECURSIVE non_spaces(_)
\* the longest prefix without whitespace
non_spaces(tokens) ==
    IF tokens # <<>> /\ ~IsSpace(Head(tokens))
    THEN <<Head(tokens)>> \o non_spaces(Tail(tokens))
    ELSE <<>>

\* re.match(r'@keyframes\s+(\S+)', content), lines 428-430: group 1, or <<>>
\* when there is no match
keyframes_name_in(content) ==
    IF /\ Len(content) >= 2
       /\ content[1] = "@keyframes"
       /\ IsSpace(content[2])
    THEN non_spaces(skip_spaces(Tail(content)))
    ELSE <<>>

\* lines 423-430: the name generate_output dedupes a keyframes entry by
dedupe_name(at_rule) ==
    IF at_rule.name # <<>> THEN at_rule.name
    ELSE keyframes_name_in(at_rule.content)

RECURSIVE dedupe_fold(_, _, _)
\* lines 420-447.  seen maps a name to its index in deduplicated
dedupe_fold(seen, deduplicated, ars) ==
    IF ars = <<>> THEN deduplicated
    ELSE LET at_rule == Head(ars)
             name == dedupe_name(at_rule)
             hit == {e \in seen : e.name = name}
         IN  IF at_rule.keyword = "keyframes" /\ name # <<>>
             THEN IF hit # {}
                  THEN dedupe_fold(seen,
                          [deduplicated EXCEPT ![(CHOOSE e \in hit : TRUE).idx] = at_rule],
                          Tail(ars))
                  ELSE dedupe_fold(
                          seen \cup {[name |-> name, idx |-> Len(deduplicated) + 1]},
                          Append(deduplicated, at_rule), Tail(ars))
             ELSE dedupe_fold(seen, Append(deduplicated, at_rule), Tail(ars))

deduplicated_at_rules(ars) == dedupe_fold({}, <<>>, ars)

RECURSIVE trailing_newlines(_)
\* how many newline tokens end the text
trailing_newlines(content) ==
    IF content # <<>> /\ content[Len(content)] = "\n"
    THEN 1 + trailing_newlines(SubSeq(content, 1, Len(content) - 1))
    ELSE 0

\* lines 450-456 for one at-rule: the text without empty comments, then a
\* newline unless the text ends with one
at_rule_block(at_rule) ==
    LET content == remove_empty_comments(at_rule.content)
        n == trailing_newlines(content)
        text == SubSeq(content, 1, Len(content) - n)
    IN  (IF text = <<>> THEN <<>>
         ELSE <<Piece("at", at_rule.name, at_rule.keyword, text, 0)>>)
        \o [i \in 1..n |-> NL]
        \o (IF n = 0 THEN <<NL>> ELSE <<>>)

RECURSIVE at_rule_blocks(_)
at_rule_blocks(ars) ==
    IF ars = <<>> THEN <<>>
    ELSE at_rule_block(Head(ars)) \o at_rule_blocks(Tail(ars))

\* lines 407-410
header_section ==
    <<Comment("=================================================="), NL,
      Comment("CSS COMPILE AVEC PARSEUR ROBUSTE"), NL,
      Comment("=================================================="), NL, NL>>

\* lines 412-457
at_rules_section(c) ==
    IF c.at_rules = <<>> THEN <<>>
    ELSE <<Comment("===== AT-RULES PRESERVEES ====="), NL>>
         \o at_rule_blocks(deduplicated_at_rules(c.at_rules))
         \o <<NL>>

Str_root == <<":", "r", "o", "o", "t">>
Str_star == <<"*">>
Str_html == <<"h", "t", "m", "l">>
Str_body == <<"b", "o", "d", "y">>

\* lines 460-463
root_rules(c) == SelectSeq(c.rules, LAMBDA r : startswith(r.selector, Str_root))

\* lines 465-468
root_section(c) ==
    IF root_rules(c) = <<>> THEN <<>>
    ELSE <<Comment("===== VARIABLES CSS ====="), NL>> \o rule_blocks(root_rules(c))

\* line 471 and line 482
base_selectors == <<Str_star, Str_html, Str_body>>

in_base_selectors(k) == \E i \in 1..Len(base_selectors) : base_selectors[i] = k

\* lines 472-477
base_rules(c) ==
    SelectSeq(c.rules, LAMBDA r : in_base_selectors(r.selector)
                                  \/ startswith(r.selector, <<":", ":">>))

RECURSIVE ordered_base_blocks(_, _)
\* lines 485-487
ordered_base_blocks(base, ordered) ==
    IF ordered = <<>> THEN <<>>
    ELSE (IF rule_index(base, Head(ordered)) # 0
          THEN rule_block(base[rule_index(base, Head(ordered))])
          ELSE <<>>)
         \o ordered_base_blocks(base, Tail(ordered))

\* lines 479-492
base_section(c) ==
    LET base == base_rules(c)
    IN  IF base = <<>> THEN <<>>
        ELSE <<Comment("===== RESET ET BASE ====="), NL>>
             \o ordered_base_blocks(base, base_selectors)
             \o rule_blocks(SelectSeq(base, LAMBDA r : ~in_base_selectors(r.selector)))

\* lines 495-498
main_rules(c) ==
    SelectSeq(c.rules, LAMBDA r : /\ rule_index(root_rules(c), r.selector) = 0
                                  /\ rule_index(base_rules(c), r.selector) = 0)

\* lines 511-513
is_heading(selector) ==
    \E d \in {"1", "2", "3", "4", "5", "6"} : startswith(selector, <<"h", d>>)

\* a plausible slip: the pseudo-selector test comes first
main_group_misordered(selector) ==
    IF contains(selector, <<":">>) THEN "pseudos"
    ELSE IF is_heading(selector) THEN "headings"
    ELSE IF startswith(selector, <<".">>) THEN "classes"
    ELSE IF startswith(selector, <<"#">>) THEN "ids"
    ELSE "elements"

\* lines 510-522: the group of a main rule
main_group(selector) ==
    IF is_heading(selector) THEN "headings"
    ELSE IF startswith(selector, <<".">>) THEN "classes"
    ELSE IF startswith(selector, <<"#">>) THEN "ids"
    ELSE IF contains(selector, <<":">>) THEN "pseudos"
    ELSE "elements"

\* line 525
main_group_order == <<"headings", "elements", "classes", "ids", "pseudos">>

RECURSIVE main_blocks(_, _)
\* lines 525-530
main_blocks(main, groups) ==
    IF groups = <<>> THEN <<>>
    ELSE main_rule_blocks(SelectSeq(main,
                 LAMBDA r : main_group(r.selector) = Head(groups)))
         \o main_blocks(main, Tail(groups))

\* lines 494-530
main_section(c) ==
    IF main_rules(c) = <<>> THEN <<>>
    ELSE <<Comment("===== REGLES PRINCIPALES ====="), NL>>
         \o main_blocks(main_rules(c), main_group_order)

-----------------------------------------------------------------------------
(* The media queries of generate_output, lines 532-664                     *)

RECURSIVE split_words(_, _)
\* str.split(): the maximal runs without whitespace; word is the run so far
split_words(s, word) ==
    IF s = <<>> THEN (IF word = <<>> THEN <<>> ELSE <<word>>)
    ELSE IF IsSpace(Head(s))
    THEN (IF word = <<>> THEN <<>> ELSE <<word>>) \o split_words(Tail(s), <<>>)
    ELSE split_words(Tail(s), Append(word, Head(s)))

RECURSIVE join_words(_)
\* ' '.join(words)
join_words(words) ==
    IF words = <<>> THEN <<>>
    ELSE IF Len(words) = 1 THEN words[1]
    ELSE words[1] \o <<" ">> \o join_words(Tail(words))

RECURSIVE replace_from(_, _, _, _, _)
\* the text s[i..] with old replaced by new, appended to done
replace_from(s, old, new, i, done) ==
    IF i > Len(s) THEN done
    ELSE IF MatchAt(s, old, i)
    THEN replace_from(s, old, new, i + Len(old), done \o new)
    ELSE replace_from(s, old, new, i + 1, Append(done, s[i]))

\* str.replace(old, new): the occurrences of old from left to right, not
\* overlapping
replace(s, old, new) == replace_from(s, old, new, 1, <<>>)

\* lines 541-544
normalize_condition(condition) ==
    LET n0 == join_words(split_words(condition, <<>>))
        n1 == replace(replace(n0, <<" ", ":">>, <<":">>), <<":", " ">>, <<":">>)
        n2 == replace(replace(n1, <<" ", "(">>, <<"(">>), <<"(", " ">>, <<"(">>)
        n3 == replace(replace(n2, <<" ", ")">>, <<")">>), <<")", " ">>, <<")">>)
    IN  n3

RECURSIVE merge_rules(_, _)
\* lines 550-555: the rules of one scope merged into the merged scope
merge_rules(merged, rs) ==
    IF rs = <<>> THEN merged
    ELSE LET rule == Head(rs)
             i == rule_index(merged, rule.selector)
         IN  merge_rules(IF i # 0
                         THEN [merged EXCEPT ![i] = merge_with(merged[i], rule)]
                         ELSE Append(merged, rule),
                         Tail(rs))

RECURSIVE merge_queries(_, _)
\* lines 537-555
merge_queries(merged, mqs) ==
    IF mqs = <<>> THEN merged
    ELSE LET normalized == normalize_condition(Head(mqs).condition)
             i == media_index(merged, normalized)
         IN  merge_queries(
                 IF i # 0
                 THEN [merged EXCEPT ![i].rules =
                          merge_rules(@, Head(mqs).rules)]
                 ELSE Append(merged,
                          [condition |-> normalized,
                           rules |-> merge_rules(<<>>, Head(mqs).rules)]),
                 Tail(mqs))

merged_queries(c) == merge_queries(<<>>, c.media_queries)

Digits == {"0", "1", "2", "3", "4", "5", "6", "7", "8", "9"}

digit_value(d) == ord(d) - ord("0")

RECURSIVE digits_from(_, _)
\* the run of digits of s that starts at position i
digits_from(s, i) ==
    IF i <= Len(s) /\ s[i] \in Digits THEN <<s[i]>> \o digits_from(s, i + 1)
    ELSE <<>>

RECURSIVE int(_)
\* int(digits)
int(digits) ==
    IF digits = <<>> THEN 0
    ELSE 10 * int(SubSeq(digits, 1, Len(digits) - 1)) + digit_value(digits[Len(digits)])

RECURSIVE after_spaces(_, _)
\* the first position from i on that holds no whitespace
after_spaces(s, i) ==
    IF i <= Len(s) /\ IsSpace(s[i]) THEN after_spaces(s, i + 1) ELSE i

Str_print == <<"p", "r", "i", "n", "t">>
Str_prefers == <<"p", "r", "e", "f", "e", "r", "s", "-">>
Str_max_width == <<"m", "a", "x", "-", "w", "i", "d", "t", "h">>
Str_min_width == <<"m", "i", "n", "-", "w", "i", "d", "t", "h">>

\* the pattern  key ':' \s* (\d+)  matches s at position i
width_match_at(s, key, i) ==
    /\ MatchAt(s, key \o <<":">>, i)
    /\ digits_from(s, after_spaces(s, i + Len(key) + 1)) # <<>>

\* group (\d+) of that match
width_at(s, key, i) == int(digits_from(s, after_spaces(s, i + Len(key) + 1)))

\* re.search(r'max-width:\s*(\d+)', condition), lines 573-575:
\* [found, width]
search_max_width(condition) ==
    LET hits == {i \in 1..Len(condition) : width_match_at(condition, Str_max_width, i)}
        first == CHOOSE i \in hits : \A j \in hits : i <= j
    IN  IF hits = {} THEN [found |-> FALSE, width |-> 0]
        ELSE [found |-> TRUE, width |-> width_at(condition, Str_max_width, first)]

\* re.search(r'(max-width|min-width):\s*(\d+)', condition), lines 605-608:
\* [found, is_max, width]
search_width(condition) ==
    LET hits == {i \in 1..Len(condition) :
                    \/ width_match_at(condition, Str_max_width, i)
                    \/ width_match_at(condition, Str_min_width, i)}
        first == CHOOSE i \in hits : \A j \in hits : i <= j
        is_max == width_match_at(condition, Str_max_width, first)
    IN  IF hits = {} THEN [found |-> FALSE, is_max |-> FALSE, width |-> 0]
        ELSE [found |-> TRUE, is_max |-> is_max,
              width |-> width_at(condition,
                                 IF is_max THEN Str_max_width ELSE Str_min_width,
                                 first)]

\* lines 565-587: the dict a merged condition is filed in
query_group(condition) ==
    IF contains(condition, Str_print) THEN "print"
    ELSE IF contains(condition, Str_prefers) THEN "preference"
    ELSE IF contains(condition, Str_max_width)
    THEN LET m == search_max_width(condition)
         IN  IF m.found
             THEN IF m.width <= 768 THEN "mobile"
                  ELSE IF m.width <= 1024 THEN "tablet"
                  ELSE "other"
             ELSE "other"
    ELSE IF contains(condition, Str_min_width) /\ ~contains(condition, Str_max_width)
    THEN "desktop"
    ELSE "other"

\* the queries filed in one dict, in the order of merged_queries
queries_of(merged, group) ==
    SelectSeq(merged, LAMBDA q : query_group(q.condition) = group)

\* a plausible slip: the width is the key, for max-width as for min-width
sort_key_unsigned(condition) ==
    LET m == search_width(condition)
    IN  IF m.found THEN m.width ELSE 0

\* lines 605-613
sort_key(condition) ==
    LET m == search_width(condition)
    IN  IF m.found THEN (IF m.is_max THEN 0 - m.width ELSE m.width) ELSE 0

RECURSIVE insert_query(_, _)
insert_query(sorted, q) ==
    IF sorted = <<>> THEN <<q>>
    ELSE IF sort_key(q.condition) < sort_key(Head(sorted).condition)
    THEN <<q>> \o sorted
    ELSE <<Head(sorted)>> \o insert_query(Tail(sorted), q)

RECURSIVE sorted_queries(_)
\* lines 601-617: list.sort(key=lambda x: x[0]) is stable
sorted_queries(queries) ==
    IF queries = <<>> THEN <<>>
    ELSE insert_query(sorted_queries(SubSeq(queries, 1, Len(queries) - 1)),
                      queries[Len(queries)])

\* lines 623-632 (641-648, 656-663) for one rule of a media block
media_rule_block(rule) ==
    IF rule.properties = <<>> THEN <<>>
    ELSE LET lines == to_css_lines(rule, MediaIndent)
             one(i) == <<[clean_line(lines[i]) EXCEPT !.ind = @ + MediaPrefix], NL>>
             all[i \in 0..Len(lines)] == IF i = 0 THEN <<>> ELSE all[i - 1] \o one(i)
         IN  all[Len(lines)] \o <<NL>>

RECURSIVE media_rule_blocks(_)
media_rule_blocks(rs) ==
    IF rs = <<>> THEN <<>>
    ELSE media_rule_block(Head(rs)) \o media_rule_blocks(Tail(rs))

\* lines 620-634 (640-649, 655-664): one @media block
media_block(q) ==
    <<Piece("media", q.condition, "", <<>>, 0), NL>>
    \o media_rule_blocks(q.rules)
    \o <<Piece("close", <<>>, "", <<>>, 0), NL, NL>>

RECURSIVE media_blocks(_)
media_blocks(queries) ==
    IF queries = <<>> THEN <<>>
    ELSE media_block(Head(queries)) \o media_blocks(Tail(queries))

\* lines 596-634 for one of the three sorted sections
sorted_section(name, queries) ==
    IF queries = <<>> THEN <<>>
    ELSE <<NL, Comment(name), NL>> \o media_blocks(sorted_queries(queries))

\* lines 636-664 for the user preference and the print sections
plain_section(name, queries) ==
    IF queries = <<>> THEN <<>>
    ELSE <<NL, Comment(name), NL>> \o media_blocks(queries)

\* a plausible slip: the print section is written before the user preferences
media_sections_print_early(merged) ==
    sorted_section("--- DESKTOP ---", queries_of(merged, "desktop"))
    \o sorted_section("--- MOBILE ---", queries_of(merged, "mobile"))
    \o plain_section("--- PRINT ---", queries_of(merged, "print"))
    \o sorted_section("--- AUTRES ---", queries_of(merged, "other"))
    \o plain_section("--- PREFERENCES UTILISATEUR ---", queries_of(merged, "preference"))

\* lines 589-664: the sections, in the order they are written
media_sections(merged) ==
    sorted_section("--- DESKTOP ---", queries_of(merged, "desktop"))
    \o sorted_section("--- MOBILE ---", queries_of(merged, "mobile"))
    \o sorted_section("--- AUTRES ---", queries_of(merged, "other"))
    \o plain_section("--- PREFERENCES UTILISATEUR ---", queries_of(merged, "preference"))
    \o plain_section("--- PRINT ---", queries_of(merged, "print"))

\* lines 532-664
media_section(c) ==
    IF c.media_queries = <<>> THEN <<>>
    ELSE <<Comment("===== MEDIA QUERIES ====="), NL>>
         \o media_sections(merged_queries(c))

\* re.sub(r'\n{3,}', '\n\n', result), line 671: of a run of three newlines
\* or more the first two are kept
collapse_newlines(text) ==
    LET third(i) == /\ i > 2
                    /\ text[i].k = "nl" /\ text[i - 1].k = "nl" /\ text[i - 2].k = "nl"
        marked == [i \in 1..Len(text) |-> [piece |-> text[i], drop |-> third(i)]]
        kept == SelectSeq(marked, LAMBDA x : ~x.drop)
    IN  [i \in 1..Len(kept) |-> kept[i].piece]

\* a plausible slip: the blank line that ends the text is cut to one newline
finish_text_trimmed(text) ==
    LET result == collapse_newlines(text)
    IN  IF Len(result) >= 2 /\ result[Len(result)].k = "nl"
           /\ result[Len(result) - 1].k = "nl"
        THEN SubSeq(result, 1, Len(result) - 1)
        ELSE result

\* lines 666-677
finish_text(text) ==
    LET result == collapse_newlines(text)
    IN  IF result = <<>> \/ result[Len(result)].k # "nl"
        THEN Append(result, NL)
        ELSE result

\* generate_output, lines 403-677
generate_output(c) ==
    finish_text(header_section
                \o at_rules_section(c)
                \o root_section(c)
                \o base_section(c)
                \o main_section(c)
                \o media_section(c))

\* compile, lines 101-112, on the parsed stylesheet
compile(stylesheet, alphabetical, safe) ==
    LET c == process_stylesheet(new_compiler, stylesheet)
    IN  generate_output(IF alphabetical THEN sort_rules(c, safe) ELSE c)

-----------------------------------------------------------------------------
(* tinycss2.parse_stylesheet on a text the compiler wrote: comments and    *)
(* whitespace are skipped, "<selector> { <declarations> }" is a qualified  *)
(* rule, "@media <condition> { <rules> }" and the preserved at-rules are   *)
(* at-rules.                                                               *)

Node(type, keyword, prelude, decls, children, body) ==
    [type |-> type, keyword |-> keyword, prelude |-> prelude, decls |-> decls,
     children |-> children, body |-> body]

Decl(type, name, value, important) ==
    [type |-> type, name |-> name, value |-> value, important |-> important]

\* the declaration read from the line "<p>: <v>;"
parse_declaration(line) ==
    LET imp == line.v # <<>> /\ line.v[Len(line.v)] = Important
    IN  Decl("declaration", line.p,
             <<" ">> \o (IF imp THEN SubSeq(line.v, 1, Len(line.v) - 1) \o <<" ">>
                                ELSE line.v),
             imp)

\* the position of the first "}" line from position i on
closing(text, i) ==
    CHOOSE j \in i..Len(text) :
        /\ text[j].k = "close"
        /\ \A n \in i..(j - 1) : text[n].k # "close"

\* the position of the first "}" line without indent from position i on
closing_media(text, i) ==
    CHOOSE j \in i..Len(text) :
        /\ text[j].k = "close" /\ text[j].ind = 0
        /\ \A n \in i..(j - 1) : ~(text[n].k = "close" /\ text[n].ind = 0)

\* the qualified rule that starts with the line "<selector> {" at position i
parse_qualified_rule(text, i) ==
    LET j == closing(text, i)
        lines == SelectSeq(SubSeq(text, i + 1, j - 1), LAMBDA x : x.k = "decl")
    IN  Node("qualified-rule", "", text[i].s \o <<" ">>,
             [n \in 1..Len(lines) |-> parse_declaration(lines[n])], <<>>, <<>>)

RECURSIVE parse_rules(_, _, _)
\* the qualified rules of text[i..j]
parse_rules(text, i, j) ==
    IF i > j THEN <<>>
    ELSE IF text[i].k = "sel"
    THEN <<parse_qualified_rule(text, i)>> \o parse_rules(text, closing(text, i) + 1, j)
    ELSE parse_rules(text, i + 1, j)

RECURSIVE parse_from(_, _)
\* the top-level nodes of the text from position i on
parse_from(text, i) ==
    IF i > Len(text) THEN <<>>
    ELSE IF text[i].k = "at"
    THEN <<Node("at-rule", text[i].p, <<" ">> \o text[i].s, <<>>, <<>>, text[i].v)>>
         \o parse_from(text, i + 1)
    ELSE IF text[i].k = "sel"
    THEN <<parse_qualified_rule(text, i)>> \o parse_from(text, closing(text, i) + 1)
    ELSE IF text[i].k = "media"
    THEN <<Node("at-rule", "media", <<" ">> \o text[i].s \o <<" ">>, <<>>,
                parse_rules(text, i + 1, closing_media(text, i) - 1), <<>>)>>
         \o parse_from(text, closing_media(text, i) + 1)
    ELSE parse_from(text, i + 1)

parse_stylesheet(text) == parse_from(text, 1)

-----------------------------------------------------------------------------
(* write_file, lines 148-161: a file is absent or holds a text             *)

Absent == [exists |-> FALSE, data |-> <<>>]
File(data) == [exists |-> TRUE, data |-> data]

\* no run of write_file
FileIdle ==
    /\ file_pc = "idle"
    /\ file_content = <<>>
    /\ dest = Absent
    /\ backup = Absent
    /\ previous = Absent

-----------------------------------------------------------------------------
(* The splitter run: a clause is chosen, split, and one of its pieces is   *)
(* split again.                                                            *)

SplitAlphabet == {"a", ",", "(", "]", "\"", "'", "\\", " "}

\* the clauses of spec.md section 8:  a, b(x,y), c   and   a[title="x,y"], b
Example1 ==
    <<"a", ",", " ", "b", "(", "x", ",", "y", ")", ",", " ", "c">>
Example2 ==
    <<"a", "[", "t", "i", "t", "l", "e", "=", "\"", "x", ",", "y", "\"", "]",
      ",", " ", "b">>

SplitInputs ==
    UNION {[1..n -> SplitAlphabet] : n \in 0..MaxLen} \cup {Example1, Example2}

\* the compiler is idle during a splitter run
CompilerIdle ==
    /\ scenario = "none"
    /\ alphabetical_order = FALSE
    /\ safe_mode = TRUE
    /\ source = <<>>
    /\ rules = <<>>
    /\ at_rules = <<>>
    /\ media_queries = <<>>
    /\ stats = new_compiler.stats
    /\ pc = "idle"
    /\ output = <<>>
    /\ output2 = <<>>

InitSplit ==
    /\ split_pc = "input"
    /\ split_in \in SplitInputs
    /\ split_out = <<>>
    /\ resplit_in = <<>>
    /\ resplit_out = <<>>
    /\ CompilerIdle
    /\ FileIdle

\* split_selectors(selector) is called (line 200)
Split ==
    /\ split_pc = "input"
    /\ split_out' = split_selectors(split_in)
    /\ split_pc' = "split"
    /\ UNCHANGED <<split_in, resplit_in, resplit_out>>
    /\ UNCHANGED <<compiler_vars, file_vars>>

\* split_selectors is called on one of the pieces it returned
Resplit ==
    /\ split_pc = "split"
    /\ \E k \in 1..Len(split_out) :
          /\ resplit_in' = split_out[k]
          /\ resplit_out' = split_selectors(split_out[k])
    /\ split_pc' = "resplit"
    /\ UNCHANGED <<split_in, split_out>>
    /\ UNCHANGED <<compiler_vars, file_vars>>

NextSplit == Split \/ Resplit

SpecSplit == InitSplit /\ [][NextSplit]_vars

-----------------------------------------------------------------------------
(* The stylesheets read: the nodes tinycss2 gives for them                 *)

Declaration(name, value) == Decl("declaration", name, <<" ", value>>, FALSE)

QualifiedRule(clause, decls) == Node("qualified-rule", "", clause, decls, <<>>, <<>>)

MediaRule(condition, children) ==
    Node("at-rule", "media", condition, <<>>, children, <<>>)

AtRule(keyword, prelude, body) == Node("at-rule", keyword, prelude, <<>>, <<>>, body)

Color(value) == <<Declaration("color", value)>>

\* h1:hover { color: red }
Rule_h1_hover == QualifiedRule(<<"h", "1">> \o Str_hover \o <<" ">>, Color("red"))
\* a:hover, .a { color: red }
Rule_a_hover ==
    QualifiedRule(<<"a">> \o Str_hover \o <<",", " ", ".", "a", " ">>, Color("red"))
\* B , #a { color: red }
Rule_B_id == QualifiedRule(<<"B", " ", ",", " ", "#", "a", " ">>, Color("red"))
\* a { color: blue }
Rule_a == QualifiedRule(<<"a", " ">>, Color("blue"))
\* :root, body, a { color: red }
Rule_root_body ==
    QualifiedRule(Str_root \o <<",", " ">> \o Str_body \o <<",", " ", "a", " ">>,
                  Color("red"))
\* ::s, html, * { color: red }
Rule_base ==
    QualifiedRule(<<":", ":", "s", ",", " ">> \o Str_html \o <<",", " ", "*", " ">>,
                  Color("red"))
\* .a/**/ { color: blue !important; <a declaration that does not parse> }
Rule_important ==
    QualifiedRule(<<".", "a", EmptyComment, " ">>,
                  <<Decl("declaration", "color", <<" ", "blue", " ">>, TRUE),
                    Decl("error", "", <<>>, FALSE)>>)

\* @media print { B, a:hover, a { color: red } }
Media_hover ==
    MediaRule(<<" ">> \o Str_print \o <<" ">>,
              <<QualifiedRule(<<"B", ",", " ", "a">> \o Str_hover
                              \o <<",", " ", "a", " ">>, Color("red"))>>)

RulesPalette ==
    {Rule_h1_hover, Rule_a_hover, Rule_B_id, Rule_a, Rule_root_body, Rule_base,
     Media_hover}

\* a { color: red }
Child_a_red == QualifiedRule(<<"a", " ">>, Color("red"))
\* a { color: blue }
Child_a_blue == QualifiedRule(<<"a", " ">>, Color("blue"))

Cond_min_1200 ==
    <<" ", "(">> \o Str_min_width \o <<":", " ", "1", "2", "0", "0", "p", "x", ")", " ">>
Cond_max_480 ==
    <<" ", "(">> \o Str_max_width \o <<":", " ", "4", "8", "0", "p", "x", ")", " ">>
Cond_print == <<" ">> \o Str_print \o <<" ">>
Cond_prefers ==
    <<" ", "(">> \o Str_prefers
    \o <<"c", "o", "l", "o", "r", "-", "s", "c", "h", "e", "m", "e", ":", " ",
         "d", "a", "r", "k", ")", " ">>
Cond_max_900 ==
    <<" ", "(">> \o Str_max_width \o <<":", " ", "9", "0", "0", "p", "x", ")", " ">>
Cond_screen_1200 ==
    <<" ", "s", "c", "r", "e", "e", "n", " ", "a", "n", "d", " ", "(">>
    \o Str_max_width \o <<":", " ", "1", "2", "0", "0", "p", "x", ")", " ">>
Cond_print_480 ==
    <<" ">> \o Str_print \o <<" ", "a", "n", "d", " ", "(">>
    \o Str_max_width \o <<":", " ", "4", "8", "0", "p", "x", ")", " ">>

\* @media (min-width: 1200px) { a { color: red } }
Media_min_1200 == MediaRule(Cond_min_1200, <<Child_a_red>>)
\* @media (max-width: 480px) { a { color: red } a { color: blue } }
Media_max_480 == MediaRule(Cond_max_480, <<Child_a_red, Child_a_blue>>)
\* @media print { a { color: red } }
Media_print == MediaRule(Cond_print, <<Child_a_red>>)
\* @media (prefers-color-scheme: dark) { a { color: red } }
Media_prefers == MediaRule(Cond_prefers, <<Child_a_red>>)
\* @media (max-width: 900px) { a { color: red } }
Media_max_900 == MediaRule(Cond_max_900, <<Child_a_red>>)
\* @media screen and (max-width: 1200px) { a { color: red } }
Media_screen_1200 == MediaRule(Cond_screen_1200, <<Child_a_red>>)
\* @media print and (max-width: 480px) { a { color: red } }
Media_print_480 == MediaRule(Cond_print_480, <<Child_a_red>>)

MediaPalette ==
    {Media_min_1200, Media_max_480, Media_print, Media_prefers, Media_max_900,
     Media_screen_1200, Media_print_480}

\* the five blocks of the media query scenario of spec.md section 8
FivePalette ==
    {Media_min_1200, Media_max_480, Media_print, Media_prefers, Media_max_900}

\* @keyframes spin {from{opacity:0}}
Keyframes_spin_1 ==
    AtRule("keyframes", <<" ", "spin", " ">>,
           <<"@keyframes", " ", "spin", " ", "{from{opacity:0}}">>)
\* @keyframes spin{to{opacity:1}}
Keyframes_spin_2 ==
    AtRule("keyframes", <<" ", "spin">>,
           <<"@keyframes", " ", "spin", "{to{opacity:1}}">>)
\* @keyframes fade {from{opacity:1}}
Keyframes_fade ==
    AtRule("keyframes", <<" ", "fade", " ">>,
           <<"@keyframes", " ", "fade", " ", "{from{opacity:1}}">>)
\* @import url(x);
Import_x == AtRule("import", <<" ", "url(x)">>, <<"@import", " ", "url(x)", ";">>)
\* @keyframes {from{opacity:0}}
Keyframes_unnamed ==
    AtRule("keyframes", <<" ">>, <<"@keyframes", " ", "{from{opacity:0}}">>)
\* a node the parser could not read
ParseError == Node("error", "", <<>>, <<>>, <<>>, <<>>)

\* @keyframes {to{opacity:1}}
Keyframes_unnamed_2 ==
    AtRule("keyframes", <<" ">>, <<"@keyframes", " ", "{to{opacity:1}}">>)

AtPalette ==
    {Keyframes_spin_1, Keyframes_spin_2, Keyframes_fade, Import_x,
     Keyframes_unnamed, Keyframes_unnamed_2, ParseError, Rule_important,
     Media_print}

\* a declaration that does not parse
DeclError == Decl("error", "", <<>>, FALSE)

\* @media print { <a rule that does not parse> a { color: red; <error> } }
Media_error ==
    MediaRule(Cond_print,
              <<ParseError,
                QualifiedRule(<<"a", " ">>,
                              <<Declaration("color", "red"), DeclError>>)>>)
\* @media print { , { color: red } }
Media_comma == MediaRule(Cond_print, <<QualifiedRule(<<",", " ">>, Color("red"))>>)
\* a { }
Rule_empty == QualifiedRule(<<"a", " ">>, <<>>)
\* { <a declaration that does not parse> }
Rule_noselector == QualifiedRule(<<" ">>, <<DeclError>>)

\* (max-width:480px), the condition of Cond_max_480 written without space
Cond_max_480_tight ==
    <<" ", "(">> \o Str_max_width \o <<":", "4", "8", "0", "p", "x", ")", " ">>

\* @media (max-width:480px) { a { color: red } }
Merge_tight_red == MediaRule(Cond_max_480_tight, <<Child_a_red>>)
\* @media (max-width:480px) { a { color: green } }
Merge_tight_green ==
    MediaRule(Cond_max_480_tight, <<QualifiedRule(<<"a", " ">>, Color("green"))>>)
\* @media (max-width: 480px) { a { color: blue } }
Merge_loose_blue == MediaRule(Cond_max_480, <<Child_a_blue>>)
\* @media (max-width: 480px) { a { color: red } }
Merge_loose_red == MediaRule(Cond_max_480, <<Child_a_red>>)

MergePalette ==
    {Merge_tight_red, Merge_tight_green, Merge_loose_blue, Merge_loose_red}

Cond_screen == <<" ", "s", "c", "r", "e", "e", "n", " ">>
Cond_min_800 ==
    <<" ", "(">> \o Str_min_width \o <<":", " ", "8", "0", "0", "p", "x", ")", " ">>
Cond_max_600 ==
    <<" ", "(">> \o Str_max_width \o <<":", " ", "6", "0", "0", "p", "x", ")", " ">>
Cond_min_600_max_1300 ==
    <<" ", "(">> \o Str_min_width \o <<":", " ", "6", "0", "0", "p", "x", ")",
      " ", "a", "n", "d", " ", "(">>
    \o Str_max_width \o <<":", " ", "1", "3", "0", "0", "p", "x", ")", " ">>

\* @media screen { a { color: red } }
Width_screen == MediaRule(Cond_screen, <<Child_a_red>>)
\* @media (min-width: 800px) { a { color: red } }
Width_min_800 == MediaRule(Cond_min_800, <<Child_a_red>>)
\* @media (max-width: 600px) { a { color: red } }
Width_max_600 == MediaRule(Cond_max_600, <<Child_a_red>>)
\* @media (min-width: 600px) and (max-width: 1300px) { a { color: red } }
Width_min_600_max_1300 == MediaRule(Cond_min_600_max_1300, <<Child_a_red>>)

\* blocks of the desktop, mobile and other sections, with and without width
WidthPalette ==
    {Width_screen, Media_screen_1200, Width_min_600_max_1300,
     Media_min_1200, Width_min_800, Media_max_480, Width_max_600}

ErrorPalette ==
    {ParseError, Rule_important, Media_error, Media_comma, Rule_empty,
     Rule_noselector}

-----------------------------------------------------------------------------
(* The compiler run: compile() reads the nodes one by one, sorts the rules *)
(* when asked to, writes the text; the text is then compiled again.        *)

\* the compiler's state as one record
compiler ==
    [rules |-> rules, at_rules |-> at_rules, media_queries |-> media_queries,
     stats |-> stats]

SplitterIdle ==
    /\ split_pc = "idle"
    /\ split_in = <<>>
    /\ split_out = <<>>
    /\ resplit_in = <<>>
    /\ resplit_out = <<>>

\* __init__, lines 61-84; the sort flags vary in the "rules" and "merge"
\* scenarios, the other scenarios run with the defaults of the command line
Init ==
    /\ SplitterIdle
    /\ FileIdle
    /\ scenario \in {"rules", "at", "media", "five", "errors", "merge",
                     "width"}
    /\ alphabetical_order \in BOOLEAN
    /\ safe_mode \in BOOLEAN
    /\ scenario \notin {"rules", "merge"} => (~alphabetical_order /\ safe_mode)
    /\ source = <<>>
    /\ rules = new_compiler.rules
    /\ at_rules = new_compiler.at_rules
    /\ media_queries = new_compiler.media_queries
    /\ stats = new_compiler.stats
    /\ pc = "process"
    /\ output = <<>>
    /\ output2 = <<>>

\* the nodes the stylesheet may go on with: up to MaxNodes nodes of the
\* scenario's palette, or, in the scenario "five", the five blocks in any order
NextNodes ==
    IF scenario = "five"
    THEN {n \in FivePalette : \A i \in 1..Len(source) : source[i] # n}
    ELSE IF Len(source) >= MaxNodes THEN {}
    ELSE IF scenario = "rules" THEN RulesPalette
    ELSE IF scenario = "at" THEN AtPalette
    ELSE IF scenario = "errors" THEN ErrorPalette
    ELSE IF scenario = "merge" THEN MergePalette
    ELSE IF scenario = "width" THEN WidthPalette
    ELSE MediaPalette

\* process_stylesheet, lines 163-166: one turn of the loop
ProcessNode ==
    /\ pc = "process"
    /\ \E node \in NextNodes :
          LET c == process_node(compiler, node)
          IN  /\ rules' = c.rules
              /\ at_rules' = c.at_rules
              /\ media_queries' = c.media_queries
              /\ stats' = c.stats
              /\ source' = Append(source, node)
    /\ UNCHANGED <<scenario, alphabetical_order, safe_mode, pc, output, output2>>
    /\ UNCHANGED <<split_vars, file_vars>>

\* compile, lines 106-108
SortRules ==
    /\ pc = "process"
    /\ alphabetical_order
    /\ LET c == sort_rules(compiler, safe_mode)
       IN  /\ rules' = c.rules
           /\ media_queries' = c.media_queries
    /\ pc' = "sorted"
    /\ UNCHANGED <<scenario, alphabetical_order, safe_mode, source, at_rules,
                   stats, output, output2>>
    /\ UNCHANGED <<split_vars, file_vars>>

\* compile, lines 110-112
GenerateOutput ==
    /\ \/ pc = "sorted"
       \/ pc = "process" /\ ~alphabetical_order
    /\ output' = generate_output(compiler)
    /\ pc' = "done"
    /\ UNCHANGED <<scenario, alphabetical_order, safe_mode, source, rules,
                   at_rules, media_queries, stats, output2>>
    /\ UNCHANGED <<split_vars, file_vars>>

\* compile() is run on the text it wrote, with the same flags
Recompile ==
    /\ pc = "done"
    /\ output2' = compile(parse_stylesheet(output), alphabetical_order, safe_mode)
    /\ pc' = "recompiled"
    /\ UNCHANGED <<scenario, alphabetical_order, safe_mode, source, rules,
                   at_rules, media_queries, stats, output>>
    /\ UNCHANGED <<split_vars, file_vars>>

Next == ProcessNode \/ SortRules \/ GenerateOutput \/ Recompile

Spec == Init /\ [][Next]_vars

\* the runs on stylesheets that spell one media condition in two ways
InitMerge == Init /\ scenario = "merge"

SpecMerge == InitMerge /\ [][Next]_vars

-----------------------------------------------------------------------------
(* Selector splitting: what the result must be, stated position by         *)
(* position on the clause                                                  *)

\* position i holds a quote character that no backslash precedes
UnescapedQuote(s, i) == s[i] \in Quotes /\ (i = 1 \/ s[i - 1] # "\\")

RECURSIVE OpenQuote(_, _)
\* the quote character of the string literal open after position i ("" if none)
OpenQuote(s, i) ==
    IF i = 0 THEN ""
    ELSE LET q == OpenQuote(s, i - 1)
         IN  IF ~UnescapedQuote(s, i) THEN q
             ELSE IF q = "" THEN s[i]
             ELSE IF s[i] = q THEN ""
             ELSE q

\* position i lies in a string literal (its opening quote included)
InLiteral(s, i) == OpenQuote(s, i) # ""

\* the nesting depth at position i: brackets opened minus brackets closed
\* before i, string literals not counted
DepthAt(s, i) ==
    Cardinality({j \in 1..(i - 1) : ~InLiteral(s, j) /\ s[j] \in Openers})
    - Cardinality({j \in 1..(i - 1) : ~InLiteral(s, j) /\ s[j] \in Closers})

SplitPoints(s) ==
    {i \in 1..Len(s) : s[i] = "," /\ ~InLiteral(s, i) /\ DepthAt(s, i) = 0}

RECURSIVE PiecesFrom(_, _)
\* the trimmed non-empty pieces of s from position i on, cut at split points
PiecesFrom(s, i) ==
    IF i > Len(s) THEN <<>>
    ELSE LET later == {j \in SplitPoints(s) : j >= i}
             cut   == IF later = {} THEN Len(s) + 1
                      ELSE CHOOSE j \in later : \A k \in later : j <= k
             piece == strip(SubSeq(s, i, cut - 1))
         IN  (IF piece = <<>> THEN <<>> ELSE <<piece>>) \o PiecesFrom(s, cut + 1)

ExpectedPieces(s) == PiecesFrom(s, 1)

C4_SplitIdempotent ==
    split_pc = "resplit" => resplit_out = <<resplit_in>>

\* a piece of a clause with an unbalanced bracket or an unterminated string
\* was split again
C4_Witness ==
    /\ split_pc = "resplit"
    /\ Len(split_out) >= 2
    /\ \/ OpenQuote(split_in, Len(split_in)) # ""
       \/ DepthAt(split_in, Len(split_in) + 1) # 0

-----------------------------------------------------------------------------
(* What the source declares and what the text holds                        *)

\* the scope of a top-level rule
TopLevel == <<>>

\* a media condition as the text writes it
ScopeOf(prelude) == normalize_condition(strip(serialize_tokens(prelude)))

\* the text of a declaration's value
DeclaredValue(decl) ==
    LET value == strip(serialize_tokens(decl.value))
    IN  IF decl.important THEN Append(value, Important) ELSE value

\* the declarations of one qualified rule, read at position <<i, j>> of the
\* source (node i, child j) under the scope
DeclaredIn(rule, scope, i, j) ==
    LET selectors == ExpectedPieces(strip(serialize_tokens(rule.prelude)))
    IN  {[at |-> <<i, j, d>>, scope |-> scope, selector |-> selectors[n],
          prop |-> rule.decls[d].name, value |-> DeclaredValue(rule.decls[d])] :
            n \in 1..Len(selectors),
            d \in {d \in 1..Len(rule.decls) : rule.decls[d].type = "declaration"}}

\* every declaration of the source, with its scope, selector and position
Declared ==
    UNION {IF source[i].type = "qualified-rule"
           THEN DeclaredIn(source[i], TopLevel, i, 0)
           ELSE IF source[i].type = "at-rule" /\ source[i].keyword = "media"
           THEN UNION {DeclaredIn(source[i].children[j],
                                  ScopeOf(source[i].prelude), i, j) :
                         j \in {j \in 1..Len(source[i].children) :
                                  source[i].children[j].type = "qualified-rule"}}
           ELSE {} : i \in 1..Len(source)}

\* position a comes before position b in the source
Before(a, b) ==
    \/ a[1] < b[1]
    \/ a[1] = b[1] /\ a[2] < b[2]
    \/ a[1] = b[1] /\ a[2] = b[2] /\ a[3] < b[3]

\* no later declaration of the same property, selector and scope
IsLastDeclared(x) ==
    \A y \in Declared :
        (y.scope = x.scope /\ y.selector = x.selector /\ y.prop = x.prop)
            => ~Before(x.at, y.at)

\* the last piece of the given kind before position j of the text (0 if none)
LastBefore(text, kind, j) ==
    IF \E i \in 1..(j - 1) : text[i].k = kind
    THEN CHOOSE i \in 1..(j - 1) :
           text[i].k = kind /\ \A n \in (i + 1)..(j - 1) : text[n].k # kind
    ELSE 0

\* the declarations the text holds, each with its selector and scope
Emitted(text) ==
    {LET s == LastBefore(text, "sel", j)
         m == LastBefore(text, "media", s)
     IN  [scope |-> IF text[s].ind = 0 THEN TopLevel ELSE text[m].s,
          selector |-> text[s].s, prop |-> text[j].p, value |-> text[j].v] :
       j \in {j \in 1..Len(text) : text[j].k = "decl"}}

\* C1: for every (scope, selector, property) declared in the stylesheet, the
\* compiled text holds that selector in that scope with the property set to
\* the value of its last declaration in source order.
C1_EveryDeclarationKept ==
    pc = "done" =>
        \A x \in Declared :
            IsLastDeclared(x) =>
                [scope |-> x.scope, selector |-> x.selector, prop |-> x.prop,
                 value |-> x.value] \in Emitted(output)

\* C2: compiling the compiled text again with the same flags gives the same
\* text.
C2_RoundTripStable ==
    pc = "recompiled" => output2 = output

-----------------------------------------------------------------------------
(* The preserved at-rules                                                  *)

\* the at-rules of the source that are not @media, in source order
SourceAtRules ==
    SelectSeq(source, LAMBDA n : n.type = "at-rule" /\ n.keyword # "media")

\* the name of an at-rule of the source
NameOf(node) == strip(serialize_tokens(node.prelude))

IsNamedKeyframes(node) == node.keyword = "keyframes" /\ NameOf(node) # <<>>

\* the @keyframes of the source named like node
SameKeyframes(nodes, node) ==
    {j \in 1..Len(nodes) : /\ nodes[j].keyword = "keyframes"
                           /\ NameOf(nodes[j]) = NameOf(node)}

Smallest(S) == CHOOSE i \in S : \A j \in S : i <= j
Largest(S) == CHOOSE i \in S : \A j \in S : i >= j

\* what the at-rule section must hold for the named @keyframes and the other
\* at-rules: one entry per name, where the name first occurs, with the text
\* of the last @keyframes of that name
ExpectedAtRules ==
    LET nodes == SelectSeq(SourceAtRules,
                     LAMBDA n : n.keyword = "keyframes" => IsNamedKeyframes(n))
        first == {i \in 1..Len(nodes) :
                     nodes[i].keyword = "keyframes" =>
                         i = Smallest(SameKeyframes(nodes, nodes[i]))}
        entry(i) ==
            IF nodes[i].keyword = "keyframes"
            THEN [keyword |-> "keyframes", name |-> NameOf(nodes[i]),
                  content |-> remove_empty_comments(
                      nodes[Largest(SameKeyframes(nodes, nodes[i]))].body)]
            ELSE [keyword |-> nodes[i].keyword, name |-> <<>>,
                  content |-> remove_empty_comments(nodes[i].body)]
        marked == [i \in 1..Len(nodes) |-> [e |-> entry(i), keep |-> i \in first]]
        kept == SelectSeq(marked, LAMBDA x : x.keep)
    IN  [i \in 1..Len(kept) |-> kept[i].e]

\* the named @keyframes and the other at-rules of the text, in its order
EmittedAtRules(text) ==
    LET lines == SelectSeq(text, LAMBDA x : x.k = "at" /\
                               (x.p = "keyframes" => x.s # <<>>))
    IN  [i \in 1..Len(lines) |->
            [keyword |-> lines[i].p, name |-> lines[i].s, content |-> lines[i].v]]

\* C5: after any sequence of at-rules the at-rule section holds at most one
\* @keyframes per name, with the content of the last @keyframes of that name,
\* at the position, among the emitted at-rules, where the name first occurred.
C5_KeyframesDeduplicated ==
    pc = "done" =>
        /\ EmittedAtRules(output) = ExpectedAtRules
        /\ \A i, j \in 1..Len(output) :
              (/\ output[i].k = "at" /\ output[j].k = "at"
               /\ output[i].p = "keyframes" /\ output[j].p = "keyframes"
               /\ output[i].s # <<>> /\ output[i].s = output[j].s) => i = j

\* @keyframes spin was read twice with another at-rule in between, and the
\* text holds the second content
C5_Witness ==
    /\ pc = "done"
    /\ \E i, j, n \in 1..Len(source) :
          /\ i < n /\ n < j
          /\ source[i] = Keyframes_spin_1
          /\ source[n] \in {Import_x, Keyframes_fade}
          /\ source[j] = Keyframes_spin_2
    /\ \E i \in 1..Len(output) :
          output[i].k = "at" /\ output[i].v = Keyframes_spin_2.body

-----------------------------------------------------------------------------
(* The order of the selectors                                              *)

\* the elements of a sequence, each at its first occurrence
FirstOccurrences(seq) ==
    LET marked == [i \in 1..Len(seq) |->
                      [x |-> seq[i], first |-> \A j \in 1..(i - 1) : seq[j] # seq[i]]]
        kept == SelectSeq(marked, LAMBDA m : m.first)
    IN  [i \in 1..Len(kept) |-> kept[i].x]

RECURSIVE SelectorsOf(_)
\* the selectors of the qualified rules of a list of nodes that declare
\* something, in source order
SelectorsOf(nodes) ==
    IF nodes = <<>> THEN <<>>
    ELSE LET n == Head(nodes)
         IN  (IF /\ n.type = "qualified-rule"
                 /\ \E d \in 1..Len(n.decls) : n.decls[d].type = "declaration"
              THEN ExpectedPieces(strip(serialize_tokens(n.prelude)))
              ELSE <<>>)
             \o SelectorsOf(Tail(nodes))

RECURSIVE ChildrenOf(_, _)
\* the rules the source puts under the media condition, in source order
ChildrenOf(nodes, condition) ==
    IF nodes = <<>> THEN <<>>
    ELSE LET n == Head(nodes)
         IN  (IF /\ n.type = "at-rule" /\ n.keyword = "media"
                 /\ strip(serialize_tokens(n.prelude)) = condition
              THEN n.children ELSE <<>>)
             \o ChildrenOf(Tail(nodes), condition)

\* the top-level selectors of the source, in the order they first occur
SourceSelectors == FirstOccurrences(SelectorsOf(source))

\* the selectors of a media scope of the source, in the order they first occur
SourceSelectorsIn(condition) ==
    FirstOccurrences(SelectorsOf(ChildrenOf(source, condition)))

\* the selector holds one of the pseudo-classes safe mode protects
Dangerous(selector) ==
    \E p \in {Str_link, Str_visited, Str_hover, Str_focus, Str_active,
              Str_first_child, Str_last_child, Str_nth} : contains(selector, p)

\* the selectors of a list of rules
Selectors(rs) == [i \in 1..Len(rs) |-> rs[i].selector]

\* the top-level selectors of the text, in its order
TopSelectors(text) ==
    LET lines == SelectSeq(text, LAMBDA x : x.k = "sel" /\ x.ind = 0)
    IN  [i \in 1..Len(lines) |-> lines[i].s]

\* a <= b, case-insensitively
LowerLeq(a, b) == ~str_less(lower(b), lower(a))

\* the dangerous selectors of seq are those of the source, in source order,
\* and the others are in case-insensitive order
SafelySorted(seq, sourceOrder) ==
    /\ SelectSeq(seq, Dangerous) = SelectSeq(sourceOrder, Dangerous)
    /\ LET others == SelectSeq(seq, LAMBDA s : ~Dangerous(s))
       IN  \A i \in 1..(Len(others) - 1) : LowerLeq(others[i], others[i + 1])

\* C6 as stated, read on the compiled text: with alphabetical mode and safe
\* mode on, the dangerous selectors are written in their source order and
\* the others in case-insensitive order.
C6_SafeOrderInText ==
    (pc = "done" /\ alphabetical_order /\ safe_mode) =>
        SafelySorted(TopSelectors(output), SourceSelectors)

\* the section of the text a top-level selector belongs to: the first
\* category it matches, in the order root scope, base (the three listed
\* selectors, then the pseudo-elements), headings, bare elements, class
\* selectors, id selectors, pseudo-selectors
Section(selector) ==
    IF startswith(selector, <<":", "r", "o", "o", "t">>) THEN "root"
    ELSE IF selector = <<"*">> THEN "base *"
    ELSE IF selector = <<"h", "t", "m", "l">> THEN "base html"
    ELSE IF selector = <<"b", "o", "d", "y">> THEN "base body"
    ELSE IF startswith(selector, <<":", ":">>) THEN "base pseudo-element"
    ELSE IF \E d \in {"1", "2", "3", "4", "5", "6"} : startswith(selector, <<"h", d>>)
    THEN "headings"
    ELSE IF /\ Head(selector) \notin {".", "#"}
            /\ \A i \in 1..Len(selector) : selector[i] # ":"
    THEN "elements"
    ELSE IF Head(selector) = "." THEN "classes"
    ELSE IF Head(selector) = "#" THEN "ids"
    ELSE "pseudos"

MainSections == {"headings", "elements", "classes", "ids", "pseudos"}

\* C6, amended: with alphabetical mode and safe mode on, in the order
\* sort_rules gives the rule store (the top level and each media scope) the
\* dangerous selectors keep their source order and the other selectors are in
\* case-insensitive order; the compiled text keeps that order inside each
\* group of the main rules.
C6_SafeOrderInStore ==
    (pc \in {"sorted", "done"} /\ alphabetical_order /\ safe_mode) =>
        /\ SafelySorted(Selectors(rules), SourceSelectors)
        /\ \A m \in 1..Len(media_queries) :
              SafelySorted(Selectors(media_queries[m].rules),
                           SourceSelectorsIn(media_queries[m].condition))
        /\ pc = "done" =>
              \A g \in MainSections :
                  SelectSeq(TopSelectors(output), LAMBDA s : Section(s) = g)
                      = SelectSeq(Selectors(rules), LAMBDA s : Section(s) = g)

\* the sorted store holds two dangerous selectors out of alphabetical order
\* and a media scope whose other selectors the sort moved behind its
\* dangerous selector
C6_Witness ==
    /\ pc = "done" /\ alphabetical_order /\ safe_mode
    /\ \E i, j \in 1..Len(rules) :
          /\ i < j
          /\ Dangerous(rules[i].selector) /\ Dangerous(rules[j].selector)
          /\ str_less(lower(rules[j].selector), lower(rules[i].selector))
    /\ \E m \in 1..Len(media_queries) :
          /\ \E i \in 1..Len(media_queries[m].rules) :
                Dangerous(media_queries[m].rules[i].selector)
          /\ Selectors(media_queries[m].rules)
                 # SourceSelectorsIn(media_queries[m].condition)

-----------------------------------------------------------------------------
(* The media sections of the text                                          *)

SectionNames ==
    {"--- DESKTOP ---", "--- MOBILE ---", "--- AUTRES ---",
     "--- PREFERENCES UTILISATEUR ---", "--- PRINT ---"}

\* the section headings and the @media blocks of the text, in its order
MediaOutline(text) ==
    LET lines == SelectSeq(text,
                     LAMBDA x : \/ x.k = "media"
                                \/ x.k = "comment" /\ x.p \in SectionNames)
    IN  [i \in 1..Len(lines) |-> [section |-> lines[i].p, block |-> lines[i].s]]

Heading(name) == [section |-> name, block |-> <<>>]
Block(condition) == [section |-> "", block |-> ScopeOf(condition)]

\* the media conditions of the source
SourceConditions ==
    {source[i].prelude : i \in {i \in 1..Len(source) :
        source[i].type = "at-rule" /\ source[i].keyword = "media"}}

\* C7: given media scopes with the conditions (min-width: 1200px),
\* (max-width: 480px), print, (prefers-color-scheme: dark) and
\* (max-width: 900px), each with a rule, in any source order, the text holds
\* the sections desktop with the 1200px block, mobile with the 480px block
\* before the 900px block, user preference, print, in that order.
C7_FiveConditions ==
    (/\ pc = "done"
     /\ SourceConditions = {Cond_min_1200, Cond_max_480, Cond_print,
                            Cond_prefers, Cond_max_900}) =>
        MediaOutline(output) =
            <<Heading("--- DESKTOP ---"), Block(Cond_min_1200),
              Heading("--- MOBILE ---"), Block(Cond_max_480), Block(Cond_max_900),
              Heading("--- PREFERENCES UTILISATEUR ---"), Block(Cond_prefers),
              Heading("--- PRINT ---"), Block(Cond_print)>>

\* the place of a condition's section in the fixed order
SectionRank(condition) ==
    CASE query_group(condition) = "desktop" -> 1
      [] query_group(condition) = "mobile" -> 2
      [] query_group(condition) = "other" -> 3
      [] query_group(condition) = "preference" -> 4
      [] query_group(condition) = "print" -> 5

SectionName(condition) ==
    CASE query_group(condition) = "desktop" -> "--- DESKTOP ---"
      [] query_group(condition) = "mobile" -> "--- MOBILE ---"
      [] query_group(condition) = "other" -> "--- AUTRES ---"
      [] query_group(condition) = "preference" -> "--- PREFERENCES UTILISATEUR ---"
      [] query_group(condition) = "print" -> "--- PRINT ---"

\* C8: the @media blocks of the text come in the section order desktop,
\* mobile, other, user preference, print, each under the heading of its
\* section; no block of a later section precedes a block of an earlier one,
\* and every print block comes after every other block, whatever widths the
\* conditions mention.
C8_MediaSectionOrder ==
    pc = "done" =>
        LET outline == MediaOutline(output)
            blocks == {i \in 1..Len(outline) : outline[i].section = ""}
        IN  /\ \A i, j \in blocks :
                  i < j => SectionRank(outline[i].block) <= SectionRank(outline[j].block)
            /\ \A i, j \in blocks :
                  (/\ contains(outline[i].block, Str_print)
                   /\ ~contains(outline[j].block, Str_print)) => j < i
            /\ \A i \in blocks :
                  \E h \in 1..(i - 1) :
                      /\ outline[h].section = SectionName(outline[i].block)
                      /\ \A n \in (h + 1)..(i - 1) : outline[n].section = ""

\* the text holds a print block whose condition mentions a width, after a
\* block of another section, and the source read them in the other order
C8_Witness ==
    /\ pc = "done"
    /\ \E i, j \in 1..Len(source) :
          i < j /\ source[i] = Media_print_480 /\ source[j] \in MediaPalette
          /\ query_group(ScopeOf(source[j].prelude)) \in {"mobile", "other", "preference"}
    /\ \E i, j \in 1..Len(output) :
          /\ i < j
          /\ output[i].k = "media" /\ ~contains(output[i].s, Str_print)
          /\ output[j].k = "media" /\ output[j].s = ScopeOf(Cond_print_480)

-----------------------------------------------------------------------------
(* The sections of the text                                                *)

\* the place of a section in the fixed order
SectionOrder(section) ==
    CASE section = "root" -> 1
      [] section = "base *" -> 2
      [] section = "base html" -> 3
      [] section = "base body" -> 4
      [] section = "base pseudo-element" -> 5
      [] section = "headings" -> 6
      [] section = "elements" -> 7
      [] section = "classes" -> 8
      [] section = "ids" -> 9
      [] section = "pseudos" -> 10

\* the heading the rules of a section are written under
SectionHeading(section) ==
    IF section = "root" THEN "===== VARIABLES CSS ====="
    ELSE IF section \in MainSections THEN "===== REGLES PRINCIPALES ====="
    ELSE "===== RESET ET BASE ====="

SectionHeadings ==
    {"===== AT-RULES PRESERVEES =====", "===== VARIABLES CSS =====",
     "===== RESET ET BASE =====", "===== REGLES PRINCIPALES =====",
     "===== MEDIA QUERIES ====="}

\* the heading that position i of the text is under ("" before the first)
HeadingAt(text, i) ==
    LET before == {h \in 1..(i - 1) :
                      text[h].k = "comment" /\ text[h].p \in SectionHeadings}
    IN  IF before = {} THEN "" ELSE text[Largest(before)].p

\* C9: every stored top-level rule is written exactly once, in the section
\* of the first category it matches, and the sections come in the order
\* preserved at-rules, root scope, base (*, html, body, then the
\* pseudo-elements), headings, bare elements, class selectors, id selectors,
\* pseudo-selectors, media queries.
C9_SectionOrder ==
    pc = "done" =>
        LET top == {i \in 1..Len(output) : output[i].k = "sel" /\ output[i].ind = 0}
        IN  /\ \A r \in 1..Len(rules) :
                  Cardinality({i \in top : output[i].s = rules[r].selector}) = 1
            /\ Cardinality(top) = Len(rules)
            /\ \A i, j \in top :
                  i < j => SectionOrder(Section(output[i].s))
                               <= SectionOrder(Section(output[j].s))
            /\ \A i \in top :
                  HeadingAt(output, i) = SectionHeading(Section(output[i].s))
            /\ \A i \in 1..Len(output) :
                  /\ output[i].k = "at" =>
                        /\ HeadingAt(output, i) = "===== AT-RULES PRESERVEES ====="
                        /\ \A j \in top : i < j
                  /\ output[i].k = "media" =>
                        /\ HeadingAt(output, i) = "===== MEDIA QUERIES ====="
                        /\ \A j \in top : j < i

\* the text holds rules of five sections or more, a heading selector with a
\* pseudo-class among them, in another order than the source
C9_Witness ==
    /\ pc = "done"
    /\ Cardinality({Section(rules[r].selector) : r \in 1..Len(rules)}) >= 5
    /\ \E r \in 1..Len(rules) :
          /\ Section(rules[r].selector) = "headings"
          /\ contains(rules[r].selector, <<":">>)
    /\ TopSelectors(output) # Selectors(rules)

-----------------------------------------------------------------------------
(* The end of the text                                                     *)

\* the text ends with i newlines exactly
EndsWithNewlines(text, i) ==
    /\ Len(text) >= i
    /\ \A n \in 1..i : text[Len(text) + 1 - n].k = "nl"
    /\ Len(text) > i => text[Len(text) - i].k # "nl"

\* the last line of the text is the heading of the media queries
EndsWithMediaHeading(text) ==
    /\ Len(text) >= 2
    /\ text[Len(text) - 1] = Comment("===== MEDIA QUERIES =====")

-----------------------------------------------------------------------------
(* Empty rules and parse errors                                            *)

\* every rule of the list holds a declaration
AllDeclare(rs) == \A i \in 1..Len(rs) : rs[i].properties # <<>>

\* the line after position i of the text that is not a newline (0 if none)
NextLine(text, i) ==
    LET after == {j \in (i + 1)..Len(text) : text[j].k # "nl"}
    IN  IF after = {} THEN 0 ELSE Smallest(after)

\* C11: after any sequence of nodes every rule of the top-level store and of
\* every media scope holds at least one declaration, and the text holds no
\* selector block without a declaration and no @media block without a rule.
C11_NoEmptyRule ==
    /\ AllDeclare(rules)
    /\ \A m \in 1..Len(media_queries) : AllDeclare(media_queries[m].rules)
    /\ pc = "done" =>
          \A i \in 1..Len(output) :
              /\ output[i].k = "sel" =>
                    /\ NextLine(output, i) # 0
                    /\ output[NextLine(output, i)].k = "decl"
              /\ output[i].k = "media" =>
                    /\ NextLine(output, i) # 0
                    /\ output[NextLine(output, i)].k = "sel"

RECURSIVE Sum(_)
Sum(seq) == IF seq = <<>> THEN 0 ELSE Head(seq) + Sum(Tail(seq))

\* how many parse errors a node holds: itself, the declarations of a
\* qualified rule, the nodes of the body of an @media block
RECURSIVE ErrorsOf(_)
ErrorsOf(node) ==
    IF node.type = "error" THEN 1
    ELSE IF node.type = "qualified-rule"
    THEN Len(SelectSeq(node.decls, LAMBDA d : d.type = "error"))
    ELSE IF node.type = "at-rule" /\ node.keyword = "media"
    THEN Sum([j \in 1..Len(node.children) |-> ErrorsOf(node.children[j])])
    ELSE 0

\* how many nodes the run has to process: the node itself if it is not a
\* parse error, and for an @media block the qualified rules of its body
QualifiedRulesOf(node) ==
    IF node.type = "qualified-rule" THEN 1
    ELSE IF node.type = "at-rule" /\ node.keyword = "media"
    THEN Len(SelectSeq(node.children, LAMBDA n : n.type = "qualified-rule"))
    ELSE 0

\* C12: every parse error met during the run, at the top level, in the body
\* of an @media block or in a declaration block, adds exactly one to the
\* parse_errors counter, and every other node is still processed.
C12_ParseErrorsCounted ==
    /\ stats.parse_errors = Sum([i \in 1..Len(source) |-> ErrorsOf(source[i])])
    /\ stats.rules_parsed = Sum([i \in 1..Len(source) |-> QualifiedRulesOf(source[i])])

-----------------------------------------------------------------------------
(* The write_file run: the destination may exist or not, and every step    *)
(* may fail or the run be interrupted before it.                           *)

\* the texts a file may hold: up to MaxText characters
Texts == UNION {[1..n -> {"a", "b"}] : n \in 1..MaxText}

Files == {Absent} \cup {File(data) : data \in Texts}

InitWrite ==
    /\ SplitterIdle
    /\ CompilerIdle
    /\ file_pc = "start"
    /\ file_content \in Texts
    /\ dest \in Files
    /\ backup \in Files
    /\ previous = dest

\* lines 151-154: the destination, if it exists, is renamed to the backup
\* path (os.rename replaces a backup that is there)
Backup ==
    /\ file_pc = "start"
    /\ IF dest.exists
       THEN backup' = dest /\ dest' = Absent
       ELSE UNCHANGED <<dest, backup>>
    /\ file_pc' = "renamed"
    /\ UNCHANGED <<file_content, previous>>
    /\ UNCHANGED <<split_vars, compiler_vars>>

\* line 154: the rename raises, outside the try of line 156
BackupFails ==
    /\ file_pc = "start"
    /\ dest.exists
    /\ file_pc' = "failed"
    /\ UNCHANGED <<file_content, dest, backup, previous>>
    /\ UNCHANGED <<split_vars, compiler_vars>>

\* line 157: open(self.output_file, 'w') creates the file, empty
Open ==
    /\ file_pc = "renamed"
    /\ dest' = File(<<>>)
    /\ file_pc' = "opened"
    /\ UNCHANGED <<file_content, backup, previous>>
    /\ UNCHANGED <<split_vars, compiler_vars>>

\* lines 157, 159-161: open raises, the error is printed, sys.exit(1)
OpenFails ==
    /\ file_pc = "renamed"
    /\ file_pc' = "failed"
    /\ UNCHANGED <<file_content, dest, backup, previous>>
    /\ UNCHANGED <<split_vars, compiler_vars>>

\* line 158: f.write(content), and the file is closed
Write ==
    /\ file_pc = "opened"
    /\ dest' = File(file_content)
    /\ file_pc' = "written"
    /\ UNCHANGED <<file_content, backup, previous>>
    /\ UNCHANGED <<split_vars, compiler_vars>>

\* lines 158-161: the write raises after some of the text, possibly none,
\* reached the file
WriteFails ==
    /\ file_pc = "opened"
    /\ \E n \in 0..(Len(file_content) - 1) :
          dest' = File(SubSeq(file_content, 1, n))
    /\ file_pc' = "failed"
    /\ UNCHANGED <<file_content, backup, previous>>
    /\ UNCHANGED <<split_vars, compiler_vars>>

\* the process is interrupted between two steps
Interrupt ==
    /\ file_pc \in {"start", "renamed", "opened"}
    /\ file_pc' = "interrupted"
    /\ UNCHANGED <<file_content, dest, backup, previous>>
    /\ UNCHANGED <<split_vars, compiler_vars>>

NextWrite ==
    Backup \/ BackupFails \/ Open \/ OpenFails \/ Write \/ WriteFails \/ Interrupt

SpecWrite == InitWrite /\ [][NextWrite]_vars

\* C13: a run of write_file that fails or is interrupted at any step leaves
\* the destination with its previous content or with the complete new text;
\* it is never missing when it existed before, empty or partially written.
C13_DestinationIntact ==
    file_pc \in {"failed", "interrupted"} =>
        \/ dest = previous
        \/ dest = File(file_content)

-----------------------------------------------------------------------------
(* The merge of the media scopes                                           *)

\* the @media blocks of the source whose condition normalizes to scope
BlocksOf(scope) ==
    {i \in 1..Len(source) : /\ source[i].type = "at-rule"
                            /\ source[i].keyword = "media"
                            /\ ScopeOf(source[i].prelude) = scope}

\* the normalized conditions that several @media blocks of the source have
SharedScopes ==
    {scope \in {ScopeOf(c) : c \in SourceConditions} :
        Cardinality(BlocksOf(scope)) >= 2}

\* C14: the @media blocks whose conditions normalize to the same string,
\* spelled alike or not, are written as one block, in which a property that
\* several of them declare for a selector has the value of the block that
\* comes last in the source, however the spellings are interleaved.
C14_MergedLastWins ==
    pc = "done" =>
        \A scope \in SharedScopes :
            /\ Cardinality({i \in 1..Len(output) :
                   output[i].k = "media" /\ output[i].s = scope}) = 1
            /\ \A x \in Declared :
                  (x.scope = scope /\ IsLastDeclared(x)) =>
                      [scope |-> x.scope, selector |-> x.selector,
                       prop |-> x.prop, value |-> x.value] \in Emitted(output)

-----------------------------------------------------------------------------
(* The order of the blocks of a media section                              *)

\* the conditions of the @media blocks of the text, in its order
MediaConditions(text) ==
    LET lines == SelectSeq(text, LAMBDA x : x.k = "media")
    IN  [i \in 1..Len(lines) |-> lines[i].s]

\* the first width a condition names: max-width or min-width, and the pixels
HasWidth(condition) == search_width(condition).found
IsMaxWidth(condition) == HasWidth(condition) /\ search_width(condition).is_max
IsMinWidth(condition) == HasWidth(condition) /\ ~search_width(condition).is_max
WidthOf(condition) == search_width(condition).width

\* two blocks of one of the sorted sections: desktop, mobile, other
SameSortedSection(a, b) ==
    /\ query_group(a) \in {"desktop", "mobile", "other"}
    /\ query_group(a) = query_group(b)

\* C15 as stated: in each of the desktop, mobile and other sections the
\* max-width blocks are in descending width order, the min-width blocks in
\* ascending width order, and every block without an extractable width comes
\* before all the blocks that have one.
C15_WidthOrder ==
    pc = "done" =>
        LET blocks == MediaConditions(output)
        IN  \A i, j \in 1..Len(blocks) :
                (i < j /\ SameSortedSection(blocks[i], blocks[j])) =>
                    /\ (IsMaxWidth(blocks[i]) /\ IsMaxWidth(blocks[j]))
                           => WidthOf(blocks[i]) >= WidthOf(blocks[j])
                    /\ (IsMinWidth(blocks[i]) /\ IsMinWidth(blocks[j]))
                           => WidthOf(blocks[i]) <= WidthOf(blocks[j])
                    /\ ~(HasWidth(blocks[i]) /\ ~HasWidth(blocks[j]))

\* the key the blocks of a section are ordered by: minus the width for
\* max-width, the width for min-width, zero without a width
WidthKey(condition) ==
    IF IsMaxWidth(condition) THEN 0 - WidthOf(condition)
    ELSE IF IsMinWidth(condition) THEN WidthOf(condition)
    ELSE 0

\* C15, amended: in each of the desktop, mobile and other sections the blocks
\* are in ascending order of the key -width for max-width, +width for
\* min-width (the first of the two that the condition names), 0 without a
\* width: max-width blocks in descending width order, min-width blocks in
\* ascending width order, and a block without a width after the max-width
\* blocks and before the min-width blocks (of a width that is not zero).
C15_WidthKeyOrder ==
    pc = "done" =>
        LET blocks == MediaConditions(output)
        IN  \A i, j \in 1..Len(blocks) :
                (i < j /\ SameSortedSection(blocks[i], blocks[j])) =>
                    /\ WidthKey(blocks[i]) <= WidthKey(blocks[j])
                    /\ (IsMaxWidth(blocks[i]) /\ IsMaxWidth(blocks[j]))
                           => WidthOf(blocks[i]) >= WidthOf(blocks[j])
                    /\ (IsMinWidth(blocks[i]) /\ IsMinWidth(blocks[j]))
                           => WidthOf(blocks[i]) <= WidthOf(blocks[j])
                    /\ ~(/\ IsMinWidth(blocks[i]) /\ WidthOf(blocks[i]) > 0
                          /\ ~HasWidth(blocks[j]))
                    /\ ~(/\ ~HasWidth(blocks[i])
                          /\ IsMaxWidth(blocks[j]) /\ WidthOf(blocks[j]) > 0)

\* one section of the text holds a max-width block, then a block without a
\* width, then a min-width block, read in another order
C15_Witness ==
    /\ pc = "done"
    /\ LET blocks == MediaConditions(output)
       IN  \E i, j, k \in 1..Len(blocks) :
               /\ i < j /\ j < k
               /\ SameSortedSection(blocks[i], blocks[j])
               /\ SameSortedSection(blocks[j], blocks[k])
               /\ IsMaxWidth(blocks[i]) /\ ~HasWidth(blocks[j]) /\ IsMinWidth(blocks[k])
    /\ source[1] = Width_min_600_max_1300

-----------------------------------------------------------------------------
(* The @keyframes without a name                                           *)

\* the texts of the unnamed @keyframes of the source, in source order
UnnamedKeyframes ==
    LET nodes == SelectSeq(SourceAtRules,
                     LAMBDA n : n.keyword = "keyframes" /\ NameOf(n) = <<>>)
    IN  [i \in 1..Len(nodes) |-> remove_empty_comments(nodes[i].body)]

\* C16: an @keyframes without a name is never merged or replaced: after any
\* sequence of at-rules each unnamed occurrence is stored, and written, as an
\* entry of its own, so that n occurrences give n entries.
C16_UnnamedKeyframesKept ==
    /\ LET stored == SelectSeq(at_rules,
                         LAMBDA r : r.keyword = "keyframes" /\ r.name = <<>>)
       IN  [i \in 1..Len(stored) |-> remove_empty_comments(stored[i].content)]
               = UnnamedKeyframes
    /\ pc = "done" =>
          LET lines == SelectSeq(output,
                           LAMBDA x : x.k = "at" /\ x.p = "keyframes" /\ x.s = <<>>)
          IN  [i \in 1..Len(lines) |-> lines[i].v] = UnnamedKeyframes

====
